---- MODULE Spec2Model ----
(***************************************************************************)
(* Model of sound/sample.py: the waveform generators TriangleWave,         *)
(* BrownNoise and Digitar (Karplus-Strong), and the harmonics helper.      *)
(*                                                                         *)
(* Python floats are modelled as exact rationals <<n, d>> (d > 0, lowest   *)
(* terms), so 0.3 is 3/10 and 0.7 is 7/10; rounding error is outside the   *)
(* model.                                                                  *)
(***************************************************************************)
EXTENDS Integers, Sequences, FiniteSets, TLC

VARIABLES
    \* ---- Digitar instance ----
    frequency,      \* self.frequency
    buffersize,     \* self.buffersize
    wavesrc,        \* self.wavesrc, as the table i |-> wavesrc.amplitude(i-1)
    sample_window,  \* self.sample_window (1-based sequence of rationals)
    cur_frame,      \* self.cur_frame
    phaseinc,       \* self.phaseinc
    phase,          \* self.phase
    pc,             \* position inside Digitar.amplitude: "idle" | "seek"
    target,         \* the frame argument of the amplitude call in progress
    result,         \* value returned by the last completed amplitude call
    nticks,         \* number of tick() calls since construction
    pre,            \* Digitar state when the call in progress was entered
    calls,          \* the last completed amplitude calls, oldest first
    \* ---- BrownNoise instance ----
    prev,           \* self.prev
    fac,            \* self.fac
    bn_out,         \* value returned by the last BrownNoise.amplitude call
    bn_last,        \* value returned by the call before that (0 initially)
    bn_n,           \* number of completed BrownNoise.amplitude calls
    \* ---- TriangleWave instance ----
    tw_frequency,   \* self.frequency
    tw_frame,       \* frame argument of the last amplitude call
    tw_out,         \* value returned by it
    tw_n,           \* number of completed TriangleWave.amplitude calls
    \* ---- harmonics ----
    heap,           \* every Sample instance constructed so far, by identity
    h_freq,         \* freq argument of the last harmonics call
    h_ns,           \* ns argument of the last harmonics call
    h_sub,          \* subsample argument of the last harmonics call
    h_ret,          \* list returned by it (instance identities)
    h_n             \* number of completed harmonics calls

digitarVars == <<frequency, buffersize, wavesrc, sample_window, cur_frame,
                 phaseinc, phase, pc, target, result, nticks, pre, calls>>
brownVars == <<prev, fac, bn_out, bn_last, bn_n>>
triangleVars == <<tw_frequency, tw_frame, tw_out, tw_n>>
harmonicsVars == <<heap, h_freq, h_ns, h_sub, h_ret, h_n>>
vars == <<digitarVars, brownVars, triangleVars, harmonicsVars>>

----------------------------------------------------------------------------
(* Bounds of the model *)

MaxBuf == 3
MaxFrame == 2
MaxTicks == 3
MaxCalls == 3
MaxBrownCalls == 3
MaxTriangleFrame == 24
MaxNs == 3
MaxHarmonicsCalls == 1

----------------------------------------------------------------------------
(* Exact rational arithmetic standing in for float arithmetic *)

RECURSIVE GCD(_, _)
GCD(a, b) == IF b = 0 THEN a ELSE GCD(b, a % b)

Abs(n) == IF n < 0 THEN -n ELSE n

Norm(n, d) ==
    LET g == GCD(Abs(n), Abs(d))
        s == IF d < 0 THEN -1 ELSE 1
    IN  <<(s * n) \div g, (s * d) \div g>>

R(n) == <<n, 1>>
Frac(n, d) == Norm(n, d)
LCM(a, b) == (a \div GCD(a, b)) * b

RAdd(x, y) ==
    LET l == LCM(x[2], y[2])
    IN  Norm(x[1] * (l \div x[2]) + y[1] * (l \div y[2]), l)
RNeg(x) == <<-x[1], x[2]>>
RSub(x, y) == RAdd(x, RNeg(y))
RMul(x, y) ==
    LET g1 == GCD(Abs(x[1]), y[2])
        g2 == GCD(Abs(y[1]), x[2])
    IN  Norm((x[1] \div g1) * (y[1] \div g2), (x[2] \div g2) * (y[2] \div g1))
RDiv(x, y) == RMul(x, IF y[1] < 0 THEN <<-y[2], -y[1]>> ELSE <<y[2], y[1]>>)
RLe(x, y) ==
    LET l == LCM(x[2], y[2])
    IN  x[1] * (l \div x[2]) <= y[1] * (l \div y[2])
RLt(x, y) == ~RLe(y, x)
RAbs(x) == <<Abs(x[1]), x[2]>>
\* floor(x) as an integer
RFloor(x) == x[1] \div x[2]
\* Python's x % m for m > 0: x - m * floor(x / m)
RMod(x, m) == RSub(x, RMul(m, R(RFloor(RDiv(x, m)))))
\* Python's int(x): truncation towards zero
RInt(x) == IF x[1] >= 0 THEN x[1] \div x[2] ELSE -((-x[1]) \div x[2])

\* from . import SAMPLE_RATE (set in the package's __init__, frames per second)
SAMPLE_RATE == 44100

----------------------------------------------------------------------------
(* Digitar *)

\* frequencies and seed values the constructor is called with
Frequencies == {11025, 14700, 22050}
SeedValues == {R(-1), R(0), R(1)}
SeedTables == UNION {[1..n -> SeedValues] : n \in 1..MaxBuf}

\* Sample.period
period(f) == RMul(RDiv(R(1), f), R(SAMPLE_RATE))

\* Digitar.__init__: phaseinc = frequency / (SAMPLE_RATE * 1./buffersize)
PhaseInc(f, n) == RDiv(R(f), RMul(R(SAMPLE_RATE), RDiv(R(1), R(n))))

\* Digitar.new_buffer: the freshly sampled wavetable
new_buffer(src, n) == [i \in 1..n |-> src[i]]

\* Digitar.get_buffer
get_buffer(w, n, frame) == w[(frame % n) + 1]

\* set_buffer writing one slot too early
set_buffer_early(w, n, frame, value) ==
    [w EXCEPT ![((frame - 1) % n) + 1] = value]

\* Digitar.set_buffer
set_buffer(w, n, frame, value) == [w EXCEPT ![(frame % n) + 1] = value]

\* tick without the wrap of the phase
tick_nowrap(w, n, c, p, inc) ==
    [w |-> set_buffer(w, n, c + 1,
                      RAdd(RMul(get_buffer(w, n, c), Frac(3, 10)),
                           RMul(get_buffer(w, n, c + 1), Frac(7, 10)))),
     c |-> c + 1,
     p |-> RAdd(p, inc)]

\* tick whose feedback forgets the 0.7 weight
tick_unweighted(w, n, c, p, inc) ==
    [w |-> set_buffer(w, n, c + 1,
                      RAdd(RMul(get_buffer(w, n, c), Frac(3, 10)),
                           get_buffer(w, n, c + 1))),
     c |-> c + 1,
     p |-> RMod(RAdd(p, inc), R(n))]

\* Digitar.tick: the new (sample_window, cur_frame, phase)
tick(w, n, c, p, inc) ==
    [w |-> set_buffer(w, n, c + 1,
                      RAdd(RMul(get_buffer(w, n, c), Frac(3, 10)),
                           RMul(get_buffer(w, n, c + 1), Frac(7, 10)))),
     c |-> c + 1,
     p |-> RMod(RAdd(p, inc), R(n))]

\* Digitar.seek, lines 148-149: the cur_frame the ticking loop starts from
\* (nothing else is assigned on a backward seek)
seek_start(c, frame) == IF frame < c THEN 0 ELSE c

\* loop condition that runs one tick too many
seek_more_inclusive(c, frame) == c <= frame

\* Digitar.seek, line 150: the loop condition
seek_more(c, frame) == c < frame

\* interpolation that does not take the weight of s2 away from s1
interpolate_unweighted(w, n, p) ==
    LET s1 == get_buffer(w, n, RInt(p))
        s2 == get_buffer(w, n, RInt(p) + 1)
        interp == RSub(p, R(RInt(p)))
    IN  RAdd(RMul(interp, s2), s1)

\* Digitar.amplitude, lines 155-158
interpolate(w, n, p) ==
    LET s1 == get_buffer(w, n, RInt(p))
        s2 == get_buffer(w, n, RInt(p) + 1)
        interp == RSub(p, R(RInt(p)))
    IN  RAdd(RMul(interp, s2), RMul(RSub(R(1), interp), s1))

DState == [w |-> sample_window, c |-> cur_frame, p |-> phase]

\* number of ticks seek(frame) performs from cur_frame = c
TicksNeeded(c, frame) == IF frame < c THEN frame ELSE frame - c

DigitarIdleInit ==
    /\ frequency = 0 /\ buffersize = 1 /\ wavesrc = <<R(0)>>
    /\ sample_window = <<R(0)>> /\ cur_frame = 0 /\ phaseinc = R(0)
    /\ phase = R(0) /\ pc = "idle" /\ target = 0 /\ result = R(0)
    /\ nticks = 0 /\ pre = <<>> /\ calls = <<>>

\* Digitar.__init__
DigitarInit ==
    /\ frequency \in Frequencies
    /\ wavesrc \in SeedTables
    /\ buffersize = Len(wavesrc)
    /\ phaseinc = PhaseInc(frequency, buffersize)
    /\ sample_window = new_buffer(wavesrc, buffersize)
    /\ cur_frame = 0
    /\ phase = R(0)
    /\ pc = "idle" /\ target = 0 /\ result = R(0)
    /\ nticks = 0 /\ pre = <<>> /\ calls = <<>>

\* Digitar.amplitude entered: seek's backward test
DigitarCall(frame) ==
    /\ pc = "idle"
    /\ nticks + TicksNeeded(cur_frame, frame) <= MaxTicks
    /\ cur_frame' = seek_start(cur_frame, frame)
    /\ target' = frame
    /\ pre' = <<[st |-> DState, nticks |-> nticks]>>
    /\ pc' = "seek"
    /\ UNCHANGED <<frequency, buffersize, wavesrc, sample_window, phaseinc,
                   phase, result, nticks, calls>>

\* one iteration of seek's while loop
DigitarTick ==
    /\ pc = "seek"
    /\ seek_more(cur_frame, target)
    /\ LET t == tick(sample_window, buffersize, cur_frame, phase, phaseinc)
       IN  /\ sample_window' = t.w
           /\ cur_frame' = t.c
           /\ phase' = t.p
    /\ nticks' = nticks + 1
    /\ UNCHANGED <<frequency, buffersize, wavesrc, phaseinc, pc, target,
                   result, pre, calls>>

LastCalls(s) == IF Len(s) > MaxCalls THEN Tail(s) ELSE s

\* seek's loop exits; amplitude interpolates and returns
DigitarReturn ==
    /\ pc = "seek"
    /\ ~seek_more(cur_frame, target)
    /\ result' = interpolate(sample_window, buffersize, phase)
    /\ calls' = LastCalls(Append(calls,
                    [frame |-> target, pre |-> pre[1].st, post |-> DState,
                     ticks |-> nticks - pre[1].nticks, value |-> result']))
    /\ pre' = <<>>
    /\ pc' = "idle"
    /\ UNCHANGED <<frequency, buffersize, wavesrc, sample_window, cur_frame,
                   phaseinc, phase, target, nticks>>


----------------------------------------------------------------------------
(* BrownNoise *)

\* fac arguments, and the values random.random() * 2 - 1 is drawn from
Facs == {Frac(1, 4), Frac(1, 2), R(1), Frac(3, 2)}
Draws == {R(-1), Frac(-1, 2), R(0), Frac(1, 2), Frac(3, 4)}

\* the random walk without the clamp
brown_step_unclamped(pv, fc, draw) == RAdd(pv, RMul(draw, fc))

\* BrownNoise.amplitude, lines 94-96: the new self.prev
brown_step(pv, fc, draw) ==
    LET x == RAdd(pv, RMul(draw, fc))
    IN  IF RLt(R(1), x) THEN R(1)
        ELSE IF RLt(x, R(-1)) THEN R(-1)
        ELSE x

BrownIdleInit ==
    /\ prev = R(0) /\ fac = R(0) /\ bn_out = R(0) /\ bn_last = R(0)
    /\ bn_n = 0

\* BrownNoise.__init__
BrownInit ==
    /\ prev = R(0)
    /\ fac \in Facs
    /\ bn_out = R(0) /\ bn_last = R(0) /\ bn_n = 0

\* BrownNoise.amplitude(frame)
BrownAmplitude(frame, draw) ==
    /\ bn_n < MaxBrownCalls
    /\ prev' = brown_step(prev, fac, draw)
    /\ bn_out' = prev'
    /\ bn_last' = bn_out
    /\ bn_n' = bn_n + 1
    /\ UNCHANGED fac

----------------------------------------------------------------------------
(* TriangleWave *)

\* frequencies whose period SAMPLE_RATE / f is a multiple of 4 frames
TriangleFrequencies == {11025, 3675, 2205, 1575}

\* the falling segment with the division binding last
triangle_precedence(frame, per) ==
    LET pframe == RMod(R(frame), per)
        hperiod == RDiv(per, R(2))
        qperiod == RDiv(hperiod, R(2))
        pframe2 == RSub(pframe, qperiod)
        pframe3 == RSub(pframe2, hperiod)
    IN  IF RLt(pframe, qperiod) THEN RDiv(pframe, qperiod)
        ELSE IF RLt(pframe2, hperiod)
             THEN RAdd(RDiv(pframe2, RMul(RNeg(hperiod), R(2))), R(1))
        ELSE RSub(RDiv(pframe3, qperiod), R(1))

\* TriangleWave.amplitude
triangle(frame, per) ==
    LET pframe == RMod(R(frame), per)
        hperiod == RDiv(per, R(2))
        qperiod == RDiv(hperiod, R(2))
        pframe2 == RSub(pframe, qperiod)
        pframe3 == RSub(pframe2, hperiod)
    IN  IF RLt(pframe, qperiod) THEN RDiv(pframe, qperiod)
        ELSE IF RLt(pframe2, hperiod)
             THEN RAdd(RMul(RDiv(pframe2, RNeg(hperiod)), R(2)), R(1))
        ELSE RSub(RDiv(pframe3, qperiod), R(1))

TriangleIdleInit ==
    /\ tw_frequency = 0 /\ tw_frame = 0 /\ tw_out = R(0) /\ tw_n = 0

\* Sample.__init__
TriangleInit ==
    /\ tw_frequency \in TriangleFrequencies
    /\ tw_frame = 0 /\ tw_out = R(0) /\ tw_n = 0

\* TriangleWave.amplitude(frame)
TriangleAmplitude(frame) ==
    /\ tw_frame' = frame
    /\ tw_out' = triangle(frame, period(R(tw_frequency)))
    /\ tw_n' = IF tw_n < 2 THEN tw_n + 1 ELSE tw_n
    /\ UNCHANGED tw_frequency

----------------------------------------------------------------------------
(* harmonics *)

BaseFrequencies == {100, 110}
Harmonics == 1..3
Subsamples == {"SineWave", "TriangleWave"}
RECURSIVE SeqsUpTo(_, _)
SeqsUpTo(S, n) ==
    IF n = 0 THEN {<<>>}
    ELSE LET T == SeqsUpTo(S, n - 1)
         IN  T \cup {Append(t, x) : t \in {u \in T : Len(u) = n - 1}, x \in S}
NsLists == SeqsUpTo(Harmonics, MaxNs)

\* subsample(frequency): Sample.__init__ on a new instance
construct(cls, f) == [class |-> cls, frequency |-> f]

\* the comprehension walking ns backwards
harmonics_reversed(freq, ns, subsample) ==
    [i \in 1..Len(ns) |-> construct(subsample, freq * ns[Len(ns) + 1 - i])]

\* harmonics, line 170: the instances the comprehension constructs, in order
harmonics(freq, ns, subsample) ==
    [i \in 1..Len(ns) |-> construct(subsample, freq * ns[i])]

\* harmonics, line 170: where in the heap the i-th list element lives when
\* the heap held base instances before the call
harmonics_ref(base, i) == base + i

HarmonicsInit ==
    /\ heap = <<>> /\ h_freq = 0 /\ h_ns = <<>> /\ h_sub = "" /\ h_ret = <<>>
    /\ h_n = 0

\* harmonics(freq, ns, subsample)
HarmonicsCall(freq, ns, subsample) ==
    /\ h_n < MaxHarmonicsCalls
    /\ h_n' = h_n + 1
    /\ heap' = heap \o harmonics(freq, ns, subsample)
    /\ h_ret' = [i \in 1..Len(ns) |-> harmonics_ref(Len(heap), i)]
    /\ h_freq' = freq /\ h_ns' = ns /\ h_sub' = subsample

----------------------------------------------------------------------------
(* Specifications, one per generator *)

Init == DigitarInit /\ BrownIdleInit /\ TriangleIdleInit /\ HarmonicsInit
Next ==
    \/ \E frame \in 0..MaxFrame :
          DigitarCall(frame) /\ UNCHANGED <<brownVars, triangleVars, harmonicsVars>>
    \/ DigitarTick /\ UNCHANGED <<brownVars, triangleVars, harmonicsVars>>
    \/ DigitarReturn /\ UNCHANGED <<brownVars, triangleVars, harmonicsVars>>
Spec == Init /\ [][Next]_vars

InitBrown == DigitarIdleInit /\ BrownInit /\ TriangleIdleInit /\ HarmonicsInit
NextBrown ==
    \E frame \in 0..MaxFrame, draw \in Draws :
        BrownAmplitude(frame, draw)
        /\ UNCHANGED <<digitarVars, triangleVars, harmonicsVars>>
SpecBrown == InitBrown /\ [][NextBrown]_vars

InitTriangle == DigitarIdleInit /\ BrownIdleInit /\ TriangleInit /\ HarmonicsInit
NextTriangle ==
    \E frame \in 0..MaxTriangleFrame :
        TriangleAmplitude(frame)
        /\ UNCHANGED <<digitarVars, brownVars, harmonicsVars>>
SpecTriangle == InitTriangle /\ [][NextTriangle]_vars

InitHarmonics == DigitarIdleInit /\ BrownIdleInit /\ TriangleIdleInit /\ HarmonicsInit
NextHarmonics ==
    \E freq \in BaseFrequencies, ns \in NsLists, subsample \in Subsamples :
        HarmonicsCall(freq, ns, subsample)
        /\ UNCHANGED <<digitarVars, brownVars, triangleVars>>
SpecHarmonics == InitHarmonics /\ [][NextHarmonics]_vars

----------------------------------------------------------------------------
(* Properties of Digitar, checked under Spec *)

Impulse(n) == [i \in 1..n |-> IF i = 1 THEN R(1) ELSE R(0)]
IsTickStep == cur_frame' = cur_frame + 1

RECURSIVE SumSq(_, _)
SumSq(w, k) == IF k = 0 THEN R(0) ELSE RAdd(SumSq(w, k - 1), RMul(w[k], w[k]))
\* sum of squared wavetable entries
Energy(w) == SumSq(w, Len(w))

RECURSIVE MaxAbs(_, _)
MaxAbs(w, k) ==
    IF k = 0 THEN R(0)
    ELSE LET m == MaxAbs(w, k - 1)
         IN  IF RLe(RAbs(w[k]), m) THEN m ELSE RAbs(w[k])
\* largest magnitude of a wavetable entry
Peak(w) == MaxAbs(w, Len(w))

\* the tightest interval holding every seeded value
Lo(src) == CHOOSE x \in {src[i] : i \in 1..Len(src)} :
               \A i \in 1..Len(src) : RLe(x, src[i])
Hi(src) == CHOOSE x \in {src[i] : i \in 1..Len(src)} :
               \A i \in 1..Len(src) : RLe(src[i], x)
InRange(x, src) == RLe(Lo(src), x) /\ RLe(x, Hi(src))

\* C1: an amplitude(frame) call with frame < cur_frame re-seeds the wavetable
\* from wave_source and resets cur_frame and phase to 0 before any tick.
C1_BackwardSeekReinitializes ==
    [][(pc = "idle" /\ pc' = "seek" /\ target' < cur_frame)
        => /\ sample_window' = new_buffer(wavesrc, buffersize)
           /\ cur_frame' = 0
           /\ phase' = R(0)]_vars

\* C2: with a deterministic wave_source, amplitude(F), amplitude(G),
\* amplitude(F) with G < F returns the same value from the first and the third
\* call and leaves the same wavetable, cur_frame and phase.
C2_ReproducibleAcrossBackwardSeek ==
    \A k \in 1..(Len(calls) - 2) :
        (calls[k + 2].frame = calls[k].frame /\ calls[k + 1].frame < calls[k].frame)
        => /\ calls[k + 2].value = calls[k].value
           /\ calls[k + 2].post = calls[k].post

\* C3: amplitude(F) entered with cur_frame = F performs zero ticks, leaves
\* wavetable, cur_frame and phase unchanged, and returns the value the
\* previous amplitude(F) call returned.
C3_ForwardSeekIdempotent ==
    \A k \in 1..Len(calls) :
        calls[k].frame = calls[k].pre.c
        => /\ calls[k].ticks = 0
           /\ calls[k].post = calls[k].pre
           /\ (k > 1 /\ calls[k - 1].frame = calls[k].frame)
                => calls[k].value = calls[k - 1].value

C3_Witness ==
    /\ Len(calls) >= 2
    /\ calls[Len(calls)].frame = calls[Len(calls) - 1].frame
    /\ calls[Len(calls)].frame > 0
    /\ calls[Len(calls)].post.p[2] > 1

\* C4: in every reachable state 0 <= phase < buffer_size, cur_frame >= 0 and
\* the wavetable has exactly buffer_size entries.
C4_DigitarInvariant ==
    /\ RLe(R(0), phase)
    /\ RLt(phase, R(buffersize))
    /\ cur_frame >= 0
    /\ Len(sample_window) = buffersize

\* a backward seek has happened and the phase has wrapped since
C4_Witness ==
    /\ pc = "seek"
    /\ nticks > cur_frame
    /\ cur_frame > 0
    /\ RLt(phase, phaseinc)

\* C5 as stated: with an impulse seed, the sum of squared wavetable entries
\* never grows over a tick.
C5_EnergyDecreases ==
    [][(wavesrc = Impulse(buffersize) /\ IsTickStep)
        => RLe(Energy(sample_window'), Energy(sample_window))]_vars

\* C5 amended: with an impulse seed, the largest magnitude of a wavetable
\* entry never grows over a tick.
C5_PeakNeverGrows ==
    [][(wavesrc = Impulse(buffersize) /\ IsTickStep)
        => RLe(Peak(sample_window'), Peak(sample_window))]_vars

\* the impulse has spread: energy above the seed's while the peak is not
C5_Witness ==
    /\ wavesrc = Impulse(buffersize)
    /\ buffersize >= 2
    /\ nticks >= 2
    /\ RLt(R(1), Energy(sample_window))
    /\ RLe(Peak(sample_window), R(1))

\* C9: a tick from cur_frame = c rewrites only the entry at (c+1) mod
\* buffer_size, to 0.3 * old[c mod buffer_size] + 0.7 * old[(c+1) mod
\* buffer_size], makes cur_frame c+1 and phase (phase + phase_increment) mod
\* buffer_size.
C9_TickFrame ==
    [][IsTickStep =>
        LET i == ((cur_frame + 1) % buffersize) + 1
            j == (cur_frame % buffersize) + 1
        IN  /\ sample_window'[i] =
                  RAdd(RMul(Frac(3, 10), sample_window[j]),
                       RMul(Frac(7, 10), sample_window[i]))
            /\ \A k \in 1..buffersize :
                  k # i => sample_window'[k] = sample_window[k]
            /\ Len(sample_window') = Len(sample_window)
            /\ phase' = RMod(RAdd(phase, phaseinc), R(buffersize))]_vars

\* a tick has just rewritten an entry of a wavetable of several entries
C9_Witness ==
    /\ pc = "seek"
    /\ buffersize >= 2
    /\ cur_frame >= 1
    /\ sample_window[(cur_frame % buffersize) + 1]
         # wavesrc[(cur_frame % buffersize) + 1]

\* C10: every wavetable entry and every value amplitude returns lies within
\* the interval spanned by the values seeded at construction.
C10_Bounded ==
    /\ \A i \in 1..Len(sample_window) : InRange(sample_window[i], wavesrc)
    /\ calls # <<>> => InRange(result, wavesrc)

\* a value strictly inside the interval was returned after ticking
C10_Witness ==
    /\ calls # <<>>
    /\ nticks > 0
    /\ pc = "idle"
    /\ phase[2] > 1
    /\ RLt(Lo(wavesrc), result)
    /\ RLt(result, Hi(wavesrc))

----------------------------------------------------------------------------
(* Properties of BrownNoise, checked under SpecBrown *)

\* C6: every returned value equals the stored prev, lies in [-1, 1], and
\* differs from the previously returned value (initially prev = 0) by at most
\* fac.
C6_BrownBounded ==
    bn_n > 0 =>
        /\ bn_out = prev
        /\ RLe(R(-1), bn_out) /\ RLe(bn_out, R(1))
        /\ RLe(RAbs(RSub(bn_out, bn_last)), fac)

\* the walk was clamped at the upper limit
C6_Witness ==
    /\ bn_n >= 2
    /\ bn_out = R(1)
    /\ RLt(RSub(bn_out, bn_last), fac)

----------------------------------------------------------------------------
(* Properties of TriangleWave, checked under SpecTriangle *)

\* C7: with a period P divisible by 4, amplitude(0) = 0, amplitude(P/4) = 1,
\* amplitude(3P/4) = -1, every amplitude lies in [-1, 1] and equals
\* amplitude(frame mod P), and the wave has no jump: neighbouring frames
\* differ by at most the slope 4/P.
C7_Triangle ==
    tw_n > 0 =>
        LET P == period(R(tw_frequency))
            q == RDiv(P, R(4))
        IN  /\ P[2] = 1 /\ P[1] % 4 = 0
            /\ tw_frame = 0 => tw_out = R(0)
            /\ R(tw_frame) = q => tw_out = R(1)
            /\ R(tw_frame) = RMul(R(3), q) => tw_out = R(-1)
            /\ RLe(R(-1), tw_out) /\ RLe(tw_out, R(1))
            /\ tw_out = triangle(tw_frame % P[1], P)
            /\ RLe(RAbs(RSub(triangle(tw_frame + 1, P), tw_out)),
                   RDiv(R(1), q))

\* the trough of the second period
C7_Witness ==
    /\ tw_n > 0
    /\ period(R(tw_frequency)) = R(12)
    /\ tw_frame = 21
    /\ tw_out = R(-1)

----------------------------------------------------------------------------
(* Properties of harmonics, checked under SpecHarmonics *)

\* C8: harmonics returns len(ns) instances, the i-th of class subsample with
\* frequency freq * ns[i], in the order of ns, no instance at two positions.
C8_Harmonics ==
    h_n > 0 =>
        /\ Len(h_ret) = Len(h_ns)
        /\ \A i \in 1..Len(h_ret) :
              /\ h_ret[i] \in 1..Len(heap)
              /\ heap[h_ret[i]].frequency = h_freq * h_ns[i]
              /\ heap[h_ret[i]].class = h_sub
        /\ \A i, j \in 1..Len(h_ret) : i # j => h_ret[i] # h_ret[j]

\* harmonics(100, ns=(1,2,3))
C8_Witness ==
    /\ h_n > 0
    /\ h_freq = 100 /\ h_ns = <<1, 2, 3>>
    /\ [i \in 1..3 |-> heap[h_ret[i]].frequency] = <<100, 200, 300>>

====
